---- MODULE Spec2Model ----
(***************************************************************************)
(* Ticket issuance and payment confirmation of the EventHub backend:       *)
(* routes/tickets.py, routes/mpesa.py and services/mpesa_service.py.       *)
(* The database tables are sequences indexed by the autoincrement id; an   *)
(* id of 0 stands for NULL/None, an empty string for a missing text value. *)
(***************************************************************************)
EXTENDS Integers, Sequences, FiniteSets, TLC

\* ------------------------------------------------------------------ bounds
MaxTxns == 2
MaxTickets == 5
MaxCapacity == 2
MaxQty == 2
MaxInflight == 2
MaxNow == 4
MaxAdmissions == 2
MaxScanning == 2
MaxTicketId == 12
ScenarioDQty == 3
UnitPrice == 5

\* --------------------------------------------------------- input domains
\* users 1 (is_verified) and 2 (not verified); 0 is "no valid JWT"
UserIds == {1, 2}
VerifiedUsers == {1}
\* the single published, approved event and its ticket type; 9 does not exist
EventIds == {1}
TicketTypeIds == {1}
\* guest e-mails: a well-formed one (it contains the buyer's phone number)
\* and one without "@"
GuestEmails == {"254@x", "nomail"}
Phones == {"254"}
\* ResultCode of a callback: 0 is success, 1032 a payment the payer cancelled
ResultCodes == {0, 1032}

\* behaviours of the gateway on initiate_stk_push / query_stk_status
GatewayOutcomes == {"ok", "declined", "no_token", "http_error"}
\* no access token; a non-200 answer, an exception or a timeout
GatewayUnavailable == {"no_token", "http_error"}

VARIABLES
  ticket_type,       \* TicketTypeModel row: quantity, sold_quantity, price
  transactions,      \* MpesaTransaction rows
  tickets,           \* Ticket rows
  provider_success,  \* intents for which the provider reported success
  inflight,          \* confirm_payment requests between guard and commit
  now,               \* datetime.utcnow(), as a logical clock
  response,          \* the last request of a gate or cancel route, with its answer
  scanning           \* redemption requests between their checks and their commit

\* what the reservation and payment routes leave alone
gate_vars == <<now, response, scanning>>

vars == <<ticket_type, transactions, tickets, provider_success, inflight,
          now, response, scanning>>

TxnIds == 1..Len(transactions)
TicketIds == 1..Len(tickets)

Max(S) == CHOOSE x \in S : \A y \in S : y <= x
Min(S) == CHOOSE x \in S : \A y \in S : x <= y

\* ------------------------------------------------------- gateway client
\* MpesaService.initiate_stk_push: success only on HTTP 200 with ResponseCode "0"
initiate_stk_push(gw) ==
  [success |-> (gw = "ok")]

\* MpesaService.query_stk_status: the dict returned; ResultCode "none" = key absent
query_stk_status(gw) ==
  CASE gw = "ok"         -> [success |-> TRUE,  ResultCode |-> "0"]
    [] gw = "declined"   -> [success |-> FALSE, ResultCode |-> "1"]
    [] gw = "no_token"   -> [success |-> FALSE, ResultCode |-> "none"]
    [] OTHER             -> [success |-> FALSE, ResultCode |-> "-1"]

\* Ticket.guest_email.ilike("%phone%")
ilike(email, phone) == phone = "254" /\ email = "254@x"

\* "@" in guest_email
HasAt(email) == email = "254@x"

\* ------------------------------------------------------------- rows
NewTransaction(user_id, tt, ticket_id, quantity, amount, phone) ==
  [user_id |-> user_id, ticket_type_id |-> tt, ticket_id |-> ticket_id,
   quantity |-> quantity, amount |-> amount, phone_number |-> phone,
   checkout_request_id |-> 0, status |-> "PENDING"]

\* intent: the transaction the row was written for; admissions: how many
\* redemption requests answered 200 for the row (bookkeeping, not columns).
\* qr_data holds the ticket id its token was generated for, 0 while empty.
NewTicket(user_id, tt, quantity, total_price, status, is_guest, email, qr, intent) ==
  [user_id |-> user_id, ticket_type_id |-> tt, quantity |-> quantity,
   total_price |-> total_price, payment_status |-> status, is_guest |-> is_guest,
   guest_email |-> email, qr_data |-> qr, intent |-> intent,
   is_used |-> FALSE, used_at |-> 0, verified_by |-> 0, admissions |-> 0]

\* no request of a gate or cancel route was handled yet
NoResponse ==
  [op |-> "", user |-> 0, qr_data |-> <<>>, ticket |-> 0, event_id |-> 0,
   code |-> 0, error |-> ""]

Init ==
  /\ ticket_type \in [quantity : 1..MaxCapacity, sold_quantity : {0}, price : {UnitPrice}]
  /\ transactions = <<>>
  /\ tickets = <<>>
  /\ provider_success = {}
  /\ inflight = <<>>
  /\ now = 1
  /\ response = NoResponse
  /\ scanning = <<>>

\* -------------------------------------------------------- reservation
\* initiate_mpesa_payment on the tables txs; t = 0 creates the transaction
initiate_mpesa_payment(txs, user_id, tt, quantity, total_price, phone, t, gw) ==
  LET created == IF t = 0
                 THEN Append(txs, NewTransaction(user_id, tt, 0, quantity, total_price, phone))
                 ELSE txs
      id == IF t = 0 THEN Len(created) ELSE t
  IN  IF initiate_stk_push(gw).success
      THEN [txs |-> [created EXCEPT ![id].checkout_request_id = id], code |-> 200, id |-> id]
      ELSE [txs |-> [created EXCEPT ![id].status = "FAILED"], code |-> 400, id |-> id]

create_pending_reservation(user_id, tt, quantity) ==
  /\ Len(transactions) < MaxTxns
  /\ Len(tickets) < MaxTickets
  /\ transactions' = Append(transactions,
        NewTransaction(user_id, tt, 0, quantity, ticket_type.price * quantity, ""))
  /\ tickets' = Append(tickets,
        NewTicket(user_id, tt, quantity, ticket_type.price * quantity, "PENDING",
                  FALSE, "", 0, Len(transactions) + 1))

create_guest_reservation(tt, quantity, email, phone) ==
  /\ Len(transactions) < MaxTxns
  /\ Len(tickets) < MaxTickets
  /\ tickets' = Append(tickets,
        NewTicket(0, tt, quantity, ticket_type.price * quantity, "PENDING",
                  TRUE, email, 0, Len(transactions) + 1))
  /\ transactions' = Append(transactions,
        NewTransaction(0, tt, Len(tickets) + 1, quantity, ticket_type.price * quantity, phone))

\* an error response: nothing is written (code is the HTTP status)
Reject(code) ==
  /\ code >= 400
  /\ UNCHANGED <<transactions, tickets>>

purchase_ticket(jwt, is_guest_checkout, email, event_id, tt, quantity, phone, gw) ==
  LET is_authenticated == jwt # 0
      is_guest == is_guest_checkout /\ ~is_authenticated
  IN
  /\ IF is_authenticated /\ jwt \notin VerifiedUsers THEN Reject(403)
     ELSE IF is_guest /\ email = "" THEN Reject(400)
     ELSE IF event_id = 0 \/ tt = 0 THEN Reject(400)
     ELSE IF quantity < 1 THEN Reject(400)
     ELSE IF event_id \notin EventIds THEN Reject(404)
     ELSE IF tt \notin TicketTypeIds THEN Reject(400)
     ELSE IF ticket_type.sold_quantity + quantity > ticket_type.quantity THEN Reject(400)
     ELSE IF is_guest THEN create_guest_reservation(tt, quantity, email, phone)
     ELSE IF phone = ""
          THEN IF jwt = 0
               THEN Reject(500)   \* user is None: AttributeError, rolled back
               ELSE create_pending_reservation(jwt, tt, quantity)
     ELSE /\ Len(transactions) < MaxTxns
          /\ LET r == initiate_mpesa_payment(transactions, jwt, tt, quantity,
                                             ticket_type.price * quantity, phone, 0, gw)
             IN  transactions' = r.txs
          /\ UNCHANGED tickets
  /\ UNCHANGED <<ticket_type, provider_success, inflight>>
  /\ UNCHANGED gate_vars

\* ------------------------------------------------- payment initiation
\* .filter_by(..., status="PENDING").order_by(id.desc()).first(); 0 if none
LatestPendingTxn(matching) ==
  LET S == {t \in matching : transactions[t].status = "PENDING"}
  IN  IF S = {} THEN 0 ELSE Max(S)

\* the tail shared by the two initiation routes: store the phone, push
InitiateExisting(user_id, k, t, phone, gw) ==
  LET r == initiate_mpesa_payment([transactions EXCEPT ![t].phone_number = phone],
                                  user_id, tickets[k].ticket_type_id,
                                  tickets[k].quantity,
                                  ticket_type.price * tickets[k].quantity, phone, t, gw)
  IN  /\ transactions' = r.txs
      /\ UNCHANGED tickets

initiate_payment_for_reservation(jwt, k, phone, gw) ==
  /\ IF k = 0 \/ phone = "" THEN Reject(400)
     ELSE IF k \notin TicketIds THEN Reject(404)
     ELSE IF tickets[k].user_id # jwt THEN Reject(403)
     ELSE IF tickets[k].payment_status # "PENDING" THEN Reject(400)
     ELSE LET ByOwner == {x \in TxnIds :
                             /\ transactions[x].user_id = jwt
                             /\ transactions[x].ticket_type_id = tickets[k].ticket_type_id}
              t == LatestPendingTxn(ByOwner)
          IN  IF t = 0 THEN Reject(400)
              ELSE InitiateExisting(jwt, k, t, phone, gw)
  /\ UNCHANGED <<ticket_type, provider_success, inflight>>
  /\ UNCHANGED gate_vars

initiate_guest_payment(k, guest_token, phone, gw) ==
  /\ IF k = 0 \/ ~guest_token \/ phone = "" THEN Reject(400)
     ELSE IF k \notin TicketIds THEN Reject(404)
     ELSE IF ~tickets[k].is_guest THEN Reject(400)
     ELSE IF tickets[k].payment_status # "PENDING" THEN Reject(400)
     ELSE LET ByTicket == {x \in TxnIds : transactions[x].ticket_id = k}
              t == LatestPendingTxn(ByTicket)
          IN  IF t = 0 THEN Reject(400)
              ELSE InitiateExisting(0, k, t, phone, gw)
  /\ UNCHANGED <<ticket_type, provider_success, inflight>>
  /\ UNCHANGED gate_vars

\* ------------------------------------------------ gateway-driven routes
\* MpesaTransaction.query.filter_by(checkout_request_id=c).first(); 0 if none
TxnByCheckout(c) ==
  LET S == {t \in TxnIds : transactions[t].checkout_request_id = c}
  IN  IF c = 0 \/ S = {} THEN 0 ELSE Min(S)

\* the linked ticket row is marked with the lowercase status
MarkLinkedTicket(t) ==
  IF transactions[t].ticket_id \in TicketIds
  THEN [tickets EXCEPT ![transactions[t].ticket_id].payment_status = "completed"]
  ELSE tickets

\* the rows filter_by(checkout_request_id=c) matches in the callback, which
\* does not reject a payload without CheckoutRequestID: None matches IS NULL
CallbackMatches(c) == {t \in TxnIds : transactions[t].checkout_request_id = c}

\* .first() has no ORDER BY: t is any of the matching rows
stk_push_callback(c, result_code, amount, t) ==
  /\ t \in CallbackMatches(c) \cup {0}
  /\ t = 0 <=> CallbackMatches(c) = {}
  /\ IF t = 0 THEN Reject(404) /\ UNCHANGED provider_success
     ELSE IF result_code = 0
     THEN /\ transactions' = [transactions EXCEPT
                 ![t].status = "completed",
                 ![t].amount = IF amount # 0 THEN amount ELSE @]
          /\ tickets' = MarkLinkedTicket(t)
          /\ provider_success' = provider_success \cup {t}
     ELSE /\ transactions' = [transactions EXCEPT ![t].status = "failed"]
          /\ UNCHANGED <<tickets, provider_success>>
  /\ UNCHANGED <<ticket_type, inflight>>
  /\ UNCHANGED gate_vars

simulate_payment_complete(t) ==
  /\ IF t \notin TxnIds THEN Reject(404) /\ UNCHANGED provider_success
     ELSE /\ transactions' = [transactions EXCEPT ![t].status = "completed"]
          /\ tickets' = MarkLinkedTicket(t)
          /\ provider_success' = provider_success \cup {t}
  /\ UNCHANGED <<ticket_type, inflight>>
  /\ UNCHANGED gate_vars

query_payment(t, gw) ==
  /\ IF t \notin TxnIds THEN Reject(404) /\ UNCHANGED provider_success
     ELSE IF transactions[t].checkout_request_id = 0
     THEN Reject(400) /\ UNCHANGED provider_success
     ELSE IF query_stk_status(gw).ResultCode = "0"
     THEN /\ transactions' = [transactions EXCEPT ![t].status = "completed"]
          /\ tickets' = MarkLinkedTicket(t)
          /\ provider_success' = provider_success \cup {t}
     ELSE /\ transactions' = [transactions EXCEPT ![t].status = "failed"]
          /\ UNCHANGED <<tickets, provider_success>>
  /\ UNCHANGED <<ticket_type, inflight>>
  /\ UNCHANGED gate_vars

\* -------------------------------------------------- payment confirmation
\* Ticket.query.filter_by(event_id, ticket_type_id, payment_status="COMPLETED")
CompletedTickets(tks, tt) ==
  {k \in 1..Len(tks) : tks[k].ticket_type_id = tt /\ tks[k].payment_status = "COMPLETED"}

\* the same, restricted to one owner (user_id = 0 matches user_id IS NULL)
CompletedTicketsOf(tks, user_id, tt) ==
  {k \in CompletedTickets(tks, tt) : tks[k].user_id = user_id}

\* PENDING guest tickets of the ticket type
PendingGuestTickets(tks, tt) ==
  {k \in 1..Len(tks) : /\ tks[k].ticket_type_id = tt
                       /\ tks[k].is_guest
                       /\ tks[k].payment_status = "PENDING"}

\* verify_mpesa_payment: the transactions table afterwards, the verdict, and
\* whether the poll itself reported ResultCode 0
verify_mpesa_payment(txs, t, gw) ==
  IF txs[t].status \in {"COMPLETED", "completed"}
  THEN [txs |-> txs, success |-> TRUE, polled |-> FALSE, gateway |-> ""]
  ELSE IF txs[t].checkout_request_id = 0
  THEN [txs |-> txs, success |-> FALSE, polled |-> FALSE, gateway |-> ""]
  ELSE IF query_stk_status(gw).ResultCode = "0"
  THEN [txs |-> [txs EXCEPT ![t].status = "COMPLETED"], success |-> TRUE,
        polled |-> TRUE, gateway |-> ""]
  ELSE [txs |-> [txs EXCEPT ![t].status = "FAILED"], success |-> FALSE,
        polled |-> FALSE, gateway |-> gw]

\* the rows the issuing loop adds for transaction t, ids from Len(tks) + 1
FinalTickets(tks, txn, t, is_guest, email) ==
  [i \in 1..txn.quantity |->
     NewTicket(txn.user_id, txn.ticket_type_id, 1,
               ticket_type.price * txn.quantity, "COMPLETED", is_guest, email,
               Len(tks) + i, t)]

\* create_tickets up to the point where it starts to write: what it will do
create_tickets_guard(txs, tks, t) ==
  LET txn == txs[t]
      existing_tickets == CompletedTicketsOf(tks, txn.user_id, txn.ticket_type_id)
  IN  IF txn.status = "COMPLETED" /\ existing_tickets # {}
      THEN [do |-> "already", code |-> 200, tickets |-> existing_tickets]
      ELSE IF txn.user_id \notin UserIds
      THEN [do |-> "reject", code |-> 404, tickets |-> {}]
      ELSE [do |-> "issue", code |-> 201, tickets |-> {}]

\* the guest ticket create_guest_tickets works on; 0 if none
GuestTicketOf(txs, tks, t) ==
  IF txs[t].ticket_id \in 1..Len(tks) THEN txs[t].ticket_id
  ELSE IF PendingGuestTickets(tks, txs[t].ticket_type_id) = {} THEN 0
  ELSE Max(PendingGuestTickets(tks, txs[t].ticket_type_id))

\* create_guest_tickets without its first guard (the transaction's user_id)
create_guest_tickets_guard_no_owner_check(txs, tks, t) ==
  LET txn == txs[t]
      g == GuestTicketOf(txs, tks, t)
  IN  IF txn.ticket_id \in 1..Len(tks) /\ tks[txn.ticket_id].payment_status = "COMPLETED"
      THEN [do |-> "already", code |-> 200,
            tickets |-> CompletedTickets(tks, txn.ticket_type_id)]
      ELSE IF g = 0
      THEN [do |-> "reject", code |-> 404, tickets |-> {}]
      ELSE IF ~HasAt(tks[g].guest_email)
      THEN [do |-> "reject", code |-> 400, tickets |-> {}]
      ELSE [do |-> "issue", code |-> 201, tickets |-> {}]

create_guest_tickets_guard(txs, tks, t) ==
  LET txn == txs[t]
      g == GuestTicketOf(txs, tks, t)
  IN  IF txn.user_id # 0
      THEN [do |-> "reject", code |-> 500, tickets |-> {}]
      ELSE IF txn.ticket_id \in 1..Len(tks) /\ tks[txn.ticket_id].payment_status = "COMPLETED"
      THEN [do |-> "already", code |-> 200,
            tickets |-> CompletedTickets(tks, txn.ticket_type_id)]
      ELSE IF g = 0
      THEN [do |-> "reject", code |-> 404, tickets |-> {}]
      ELSE IF ~HasAt(tks[g].guest_email)
      THEN [do |-> "reject", code |-> 400, tickets |-> {}]
      ELSE [do |-> "issue", code |-> 201, tickets |-> {}]

\* the writes of create_tickets / create_guest_tickets, committed together:
\* sold_read is the sold_quantity this request loaded, g the guest ticket
IssueTickets(txs, t, g, sold_read) ==
  LET txn == txs[t]
      email == IF g = 0 THEN "" ELSE tickets[g].guest_email
      added == tickets \o FinalTickets(tickets, txn, t, g # 0, email)
  IN  /\ Len(tickets) + txn.quantity <= MaxTickets
      /\ tickets' = IF g = 0 THEN added
                    ELSE [added EXCEPT ![g].payment_status = "COMPLETED"]
      /\ ticket_type' = [ticket_type EXCEPT !.sold_quantity = sold_read + txn.quantity]
      /\ transactions' = [txs EXCEPT ![t].status = "COMPLETED"]

\* a response that writes nothing beyond txs (the table after verify):
\* 200 with status already_processed, or an error
Answer(txs, code) ==
  /\ code >= 200
  /\ transactions' = txs
  /\ UNCHANGED <<tickets, ticket_type>>

\* the guest ticket confirm_payment finds for the transaction; 0 if none
ConfirmGuestTicket(t) ==
  LET txn == transactions[t]
      P == PendingGuestTickets(tickets, txn.ticket_type_id)
      byPhone == {k \in P : ilike(tickets[k].guest_email, txn.phone_number)}
  IN  IF txn.ticket_id \in TicketIds THEN txn.ticket_id
      ELSE IF txn.user_id # 0 THEN 0
      ELSE IF txn.phone_number # ""
           THEN (IF byPhone = {} THEN 0 ELSE Min(byPhone))
           ELSE (IF P = {} THEN 0 ELSE Max(P))

\* confirm_payment down to the decision of the create_* guard:
\* which transaction, through which route, with which verdict
confirm_payment_guard(c, payment_method, transaction_id, gw) ==
  LET none == [txs |-> transactions, polled |-> FALSE, gateway |-> ""]
      t == IF payment_method = "mpesa" THEN TxnByCheckout(c) ELSE transaction_id
      g == ConfirmGuestTicket(t)
      v == verify_mpesa_payment(transactions, t, gw)
  IN  IF payment_method = "mpesa" /\ c = 0
      THEN [do |-> "reject", code |-> 400, tickets |-> {}, t |-> 0, g |-> 0, v |-> none]
      ELSE IF t \notin TxnIds
      THEN [do |-> "reject", code |-> IF payment_method = "mpesa" THEN 404 ELSE 400,
            tickets |-> {}, t |-> 0, g |-> 0, v |-> none]
      ELSE IF payment_method # "mpesa"
      THEN create_tickets_guard(transactions, tickets, t) @@ [t |-> t, g |-> 0, v |-> none]
      ELSE IF /\ transactions[t].ticket_id \in TicketIds
              /\ tickets[transactions[t].ticket_id].payment_status = "COMPLETED"
      THEN [do |-> "already", code |-> 200,
            tickets |-> CompletedTickets(tickets, transactions[t].ticket_type_id),
            t |-> t, g |-> 0, v |-> none]
      ELSE IF g # 0
      THEN IF transactions[t].user_id # 0
           THEN [do |-> "reject", code |-> 400, tickets |-> {}, t |-> t, g |-> 0, v |-> none]
           ELSE create_guest_tickets_guard(transactions, tickets, t)
                  @@ [t |-> t, g |-> GuestTicketOf(transactions, tickets, t), v |-> none]
      ELSE IF ~v.success
      THEN [do |-> "reject", code |-> 400, tickets |-> {}, t |-> t, g |-> 0, v |-> v]
      ELSE create_tickets_guard(v.txs, tickets, t) @@ [t |-> t, g |-> 0, v |-> v]

confirm_payment(c, payment_method, transaction_id, gw) ==
  \E d \in {confirm_payment_guard(c, payment_method, transaction_id, gw)} :
  /\ CASE d.do = "issue"   -> IssueTickets(d.v.txs, d.t, d.g, ticket_type.sold_quantity)
       [] OTHER            -> Answer(d.v.txs, d.code)
  /\ provider_success' = IF d.v.polled THEN provider_success \cup {d.t} ELSE provider_success
  /\ UNCHANGED inflight
  /\ UNCHANGED gate_vars

\* a request body of POST /tickets, with the identity of its JWT (0: none)
Req(jwt, g, email, ev, tt, q, phone, gw) ==
  [jwt |-> jwt, is_guest_checkout |-> g, email |-> email, event_id |-> ev,
   ticket_type_id |-> tt, quantity |-> q, phone |-> phone, gw |-> gw]

\* the requests tried: guests, buyers who send a phone (with or without a
\* JWT), verified buyers who send none (with and without the guest flag), and
\* one request per validation error
PurchaseRequests ==
  {Req(0, TRUE, e, 1, 1, q, "", "ok") : e \in GuestEmails, q \in 1..MaxQty}
  \cup {Req(j, FALSE, "", 1, 1, q, "254", gw) :
          j \in {0, 1}, q \in 1..MaxQty, gw \in GatewayOutcomes}
  \cup {Req(1, g, "", 1, 1, q, "", "ok") : g \in BOOLEAN, q \in 0..MaxQty}
  \cup {Req(0, TRUE, "", 1, 1, 1, "", "ok"), Req(0, FALSE, "", 1, 1, 1, "", "ok"),
        Req(2, FALSE, "", 1, 1, 1, "", "ok"), Req(1, FALSE, "", 9, 9, 1, "", "ok"),
        Req(1, FALSE, "", 1, 9, 1, "", "ok")}

\* POST /tickets/initiate-payment: the owner with any gateway behaviour, or
\* another user
InitiateRequests ==
  {r \in [jwt : UserIds, k : 0..MaxTickets, gw : GatewayOutcomes] :
     r.jwt \notin VerifiedUsers => r.gw = "ok"}

Next ==
  \/ \E r \in PurchaseRequests :
        purchase_ticket(r.jwt, r.is_guest_checkout, r.email, r.event_id,
                        r.ticket_type_id, r.quantity, r.phone, r.gw)
  \/ \E r \in InitiateRequests :
        /\ r.k \in TicketIds \cup {0}
        /\ initiate_payment_for_reservation(r.jwt, r.k, "254", r.gw)
  \/ \E k \in TicketIds \cup {0}, gw \in GatewayOutcomes :
        initiate_guest_payment(k, TRUE, "254", gw)
  \/ \E c \in TxnIds \cup {0}, rc \in ResultCodes, t \in TxnIds \cup {0} :
        stk_push_callback(c, rc, 0, t)
  \/ \E t \in TxnIds \cup {0} : simulate_payment_complete(t)
  \/ \E t \in TxnIds \cup {0}, gw \in GatewayOutcomes : query_payment(t, gw)
  \/ \E c \in TxnIds \cup {0}, gw \in GatewayOutcomes : confirm_payment(c, "mpesa", 0, gw)
  \/ \E t \in TxnIds \cup {0} : confirm_payment(0, "card", t, "ok")

Spec == Init /\ [][Next]_vars

\* --------------------------------------------- concurrent confirmations
\* confirm_payment of one request up to the end of the create_* guard: a
\* request that is going to issue is left in flight, any other one answers
confirm_payment_begin(c, payment_method, transaction_id, gw) ==
  \E d \in {confirm_payment_guard(c, payment_method, transaction_id, gw)} :
  /\ IF d.do = "issue"
     THEN /\ Len(inflight) < MaxInflight
          /\ transactions' = d.v.txs
          /\ inflight' = Append(inflight,
                [t |-> d.t, g |-> d.g, sold_read |-> ticket_type.sold_quantity])
          /\ UNCHANGED <<tickets, ticket_type>>
     ELSE Answer(d.v.txs, d.code) /\ UNCHANGED inflight
  /\ provider_success' = IF d.v.polled THEN provider_success \cup {d.t} ELSE provider_success
  /\ UNCHANGED gate_vars

\* the rest of create_tickets / create_guest_tickets of the request in flight
\* at position i: it loaded ticket_type when it began or just now, and its
\* UPDATE writes the loaded sold_quantity plus its quantity
confirm_payment_commit(i, sold_read) ==
  /\ i \in 1..Len(inflight)
  /\ sold_read \in {inflight[i].sold_read, ticket_type.sold_quantity}
  /\ IssueTickets(transactions, inflight[i].t, inflight[i].g, sold_read)
  /\ inflight' = [j \in 1..(Len(inflight) - 1) |->
                    IF j < i THEN inflight[j] ELSE inflight[j + 1]]
  /\ UNCHANGED provider_success
  /\ UNCHANGED gate_vars

NextConc ==
  \/ \E r \in PurchaseRequests :
        purchase_ticket(r.jwt, r.is_guest_checkout, r.email, r.event_id,
                        r.ticket_type_id, r.quantity, r.phone, r.gw)
  \/ \E r \in InitiateRequests :
        /\ r.k \in TicketIds \cup {0}
        /\ initiate_payment_for_reservation(r.jwt, r.k, "254", r.gw)
  \/ \E k \in TicketIds \cup {0}, gw \in GatewayOutcomes :
        initiate_guest_payment(k, TRUE, "254", gw)
  \/ \E c \in TxnIds \cup {0}, gw \in GatewayOutcomes :
        confirm_payment_begin(c, "mpesa", 0, gw)
  \/ \E i \in 1..MaxInflight, sold_read \in 0..(MaxTickets + MaxQty) :
        confirm_payment_commit(i, sold_read)

SpecConc == Init /\ [][NextConc]_vars

\* ------------------------------------- reservation, webhook, confirmation
\* the purchase flow proper: no sandbox override, no /query route, and every
\* confirmation asks for the M-Pesa method
NextConfirm ==
  \/ \E r \in PurchaseRequests :
        purchase_ticket(r.jwt, r.is_guest_checkout, r.email, r.event_id,
                        r.ticket_type_id, r.quantity, r.phone, r.gw)
  \/ \E r \in InitiateRequests :
        /\ r.k \in TicketIds \cup {0}
        /\ initiate_payment_for_reservation(r.jwt, r.k, "254", r.gw)
  \/ \E k \in TicketIds \cup {0}, gw \in GatewayOutcomes :
        initiate_guest_payment(k, TRUE, "254", gw)
  \/ \E c \in TxnIds, rc \in ResultCodes, t \in TxnIds :
        stk_push_callback(c, rc, 0, t)
  \/ \E c \in TxnIds \cup {0}, gw \in GatewayOutcomes : confirm_payment(c, "mpesa", 0, gw)

SpecConfirm == Init /\ [][NextConfirm]_vars

\* ------------------------------------------------ a gateway out of reach
\* the provider never reports an outcome: a push is accepted or the gateway
\* cannot be reached, and every status query finds it unreachable
NextGateway ==
  \/ \E r \in PurchaseRequests :
        /\ r.gw \in {"ok"} \cup GatewayUnavailable
        /\ purchase_ticket(r.jwt, r.is_guest_checkout, r.email, r.event_id,
                           r.ticket_type_id, r.quantity, r.phone, r.gw)
  \/ \E r \in InitiateRequests :
        /\ r.k \in TicketIds \cup {0}
        /\ r.gw \in {"ok"} \cup GatewayUnavailable
        /\ initiate_payment_for_reservation(r.jwt, r.k, "254", r.gw)
  \/ \E k \in TicketIds \cup {0}, gw \in {"ok"} \cup GatewayUnavailable :
        initiate_guest_payment(k, TRUE, "254", gw)
  \/ \E t \in TxnIds, gw \in GatewayUnavailable : query_payment(t, gw)
  \/ \E c \in TxnIds, gw \in GatewayUnavailable : confirm_payment(c, "mpesa", 0, gw)

SpecGateway == Init /\ [][NextGateway]_vars

\* ------------------------------------------------------------ QR tokens
\* text is a sequence of characters; Chars lists the characters that occur,
\* the ten digits first, the sixteen hexadecimal digits first
Chars ==
  <<"0", "1", "2", "3", "4", "5", "6", "7", "8", "9", "a", "b", "c", "d", "e", "f",
    "-", ":", " ", "x", "é">>

\* the code point of a character, as its position in Chars
ord(c) == CHOOSE i \in 1..Len(Chars) : Chars[i] = c

IsDigit(c) == ord(c) <= 10

\* str.isascii()
isascii(s) == \A i \in 1..Len(s) : s[i] # "é"

\* str(n) of a non-negative integer
RECURSIVE str(_)
str(n) ==
  IF n < 10 THEN <<Chars[n + 1]>>
  ELSE str(n \div 10) \o <<Chars[(n % 10) + 1]>>

\* str.strip()
RECURSIVE strip(_)
strip(s) ==
  IF s = <<>> THEN s
  ELSE IF Head(s) = " " THEN strip(Tail(s))
  ELSE IF s[Len(s)] = " " THEN strip(SubSeq(s, 1, Len(s) - 1))
  ELSE s

\* the value of a string of digits
RECURSIVE digits_value(_)
digits_value(s) ==
  IF s = <<>> THEN 0
  ELSE 10 * digits_value(SubSeq(s, 1, Len(s) - 1)) + (ord(s[Len(s)]) - 1)

\* int(s): surrounding blanks and one leading "-" are accepted; raised
\* stands for the ValueError
int(s) ==
  LET t == strip(s)
      body == IF t # <<>> /\ Head(t) = "-" THEN Tail(t) ELSE t
  IN  IF body = <<>> \/ \E i \in 1..Len(body) : ~IsDigit(body[i])
      THEN [raised |-> TRUE, value |-> 0]
      ELSE [raised |-> FALSE,
            value |-> IF body = t THEN digits_value(body) ELSE 0 - digits_value(body)]

\* s.split(":")
RECURSIVE split(_)
split(s) ==
  IF \A i \in 1..Len(s) : s[i] # ":" THEN <<s>>
  ELSE LET i == Min({j \in 1..Len(s) : s[j] = ":"})
       IN  <<SubSeq(s, 1, i - 1)>> \o split(SubSeq(s, i + 1, Len(s)))

\* the key of the deployment (the environment variable QR_SIGNING_KEY)
QR_SIGNING_KEY == 2749

\* the digest is cut to its first TagLen characters ([:16] of 64 in the code)
TagLen == 2

\* hmac.new(QR_SIGNING_KEY, message, sha256).hexdigest(): a keyed digest of
\* three hexadecimal digits stands for the 64 of HMAC-SHA256
RECURSIVE keyed_hash(_, _)
keyed_hash(h, message) ==
  IF message = <<>> THEN h
  ELSE keyed_hash((h * 31 + ord(Head(message))) % 4096, Tail(message))

hexdigest(message) ==
  LET h == keyed_hash(QR_SIGNING_KEY, message)
  IN  <<Chars[(h \div 256) + 1], Chars[((h \div 16) % 16) + 1], Chars[(h % 16) + 1]>>

\* the signature both functions compute for a ticket-id field and a uuid
signature_of(ticket_id, ticket_uuid) ==
  SubSeq(hexdigest(ticket_id \o <<":">> \o ticket_uuid), 1, TagLen)

\* generate_secure_qr_data signing the message "UUID:TICKET_ID" instead
generate_secure_qr_data_uuid_first(ticket_id, ticket_uuid) ==
  ticket_uuid \o <<":">>
              \o SubSeq(hexdigest(ticket_uuid \o <<":">> \o str(ticket_id)), 1, TagLen)
              \o <<":">> \o str(ticket_id)

\* generate_secure_qr_data with the uuid4 it drew: "UUID:SIGNATURE:TICKET_ID"
generate_secure_qr_data(ticket_id, ticket_uuid) ==
  ticket_uuid \o <<":">> \o signature_of(str(ticket_id), ticket_uuid)
              \o <<":">> \o str(ticket_id)

\* hmac.compare_digest on two str: raised is the TypeError for a str that
\* is not ASCII
compare_digest(a, b) ==
  [raised |-> ~isascii(a) \/ ~isascii(b), equal |-> a = b]

Invalid(error) ==
  [valid |-> FALSE, error |-> error, ticket_uuid |-> <<>>, ticket_id |-> 0]

\* verify_qr_token without the comparison of the signatures
verify_qr_token_unsigned(qr_data) ==
  LET parts == split(qr_data)
  IN  IF Len(parts) # 3
      THEN Invalid("Invalid QR format - expected 3 parts")
      ELSE IF int(parts[3]).raised THEN Invalid("Verification failed")
      ELSE [valid |-> TRUE, error |-> "", ticket_uuid |-> parts[1],
            ticket_id |-> int(parts[3]).value]

verify_qr_token(qr_data) ==
  LET parts == split(qr_data)
  IN  IF Len(parts) # 3
      THEN Invalid("Invalid QR format - expected 3 parts")
      ELSE LET ticket_uuid == parts[1]
               signature == parts[2]
               ticket_id == parts[3]
               same == compare_digest(signature, signature_of(ticket_id, ticket_uuid))
           IN  IF same.raised THEN Invalid("Verification failed")
               ELSE IF ~same.equal THEN Invalid("Invalid signature - possible forgery")
               ELSE IF int(ticket_id).raised THEN Invalid("Verification failed")
               ELSE [valid |-> TRUE, error |-> "", ticket_uuid |-> ticket_uuid,
                     ticket_id |-> int(ticket_id).value]

\* ------------------------------------------------------- gate routes
\* staff: user 3 is the organizer of event 1, user 4 an admin; event 2 exists
\* and belongs to an organizer who sends no request
StaffIds == {3, 4}
GateEvents == {1, 2}

role(user) ==
  CASE user = 3 -> "ORGANIZER"
    [] user = 4 -> "ADMIN"
    [] OTHER    -> "ATTENDEE"

\* Event.organizer_id
organizer_id(event_id) == IF event_id \in EventIds THEN 3 ELSE 5

\* Event.start_date and Event.end_date, on the clock of now
EventStart == 2
EventEnd == 3

\* Ticket.event_id: the event of the ticket type the row was bought for
event_of(k) == CHOOSE e \in EventIds : tickets[k].ticket_type_id \in TicketTypeIds

\* get_jwt_identity(): the identity is created as str(user.id)
get_jwt_identity(user) == <<"str", user>>

\* a value of an Integer column as Python sees it: an int, or None for NULL
column(id) == IF id = 0 THEN <<"NoneType", 0>> ELSE <<"int", id>>

Verdict(do, code, error, k) ==
  [do |-> do, code |-> code, error |-> error, ticket |-> k]

\* verify_ticket without the check of ticket.is_used
verify_ticket_guard_no_used_check(user, qr_data, event_id) ==
  LET verification == verify_qr_token(strip(qr_data))
      k == verification.ticket_id
  IN  IF role(user) \notin {"ADMIN", "ORGANIZER"}
      THEN Verdict("reject", 403, "Permission denied", 0)
      ELSE IF strip(qr_data) = <<>>
      THEN Verdict("reject", 400, "QR data is required", 0)
      ELSE IF ~verification.valid
      THEN Verdict("reject", 400, verification.error, 0)
      ELSE IF k \notin TicketIds
      THEN Verdict("reject", 404, "Ticket not found", 0)
      ELSE IF event_id # 0 /\ event_of(k) # event_id
      THEN Verdict("reject", 400, "Ticket is for a different event", k)
      ELSE IF role(user) = "ORGANIZER" /\ organizer_id(event_of(k)) # user
      THEN Verdict("reject", 403, "You can only verify tickets for your own events", k)
      ELSE IF tickets[k].payment_status = "FAILED"
      THEN Verdict("reject", 400, "Ticket has been cancelled", k)
      ELSE IF EventEnd < now
      THEN Verdict("reject", 400, "Event has already ended", k)
      ELSE Verdict("redeem", 200, "", k)

\* verify_ticket down to its writes
verify_ticket_guard(user, qr_data, event_id) ==
  LET verification == verify_qr_token(strip(qr_data))
      k == verification.ticket_id
  IN  IF role(user) \notin {"ADMIN", "ORGANIZER"}
      THEN Verdict("reject", 403, "Permission denied", 0)
      ELSE IF strip(qr_data) = <<>>
      THEN Verdict("reject", 400, "QR data is required", 0)
      ELSE IF ~verification.valid
      THEN Verdict("reject", 400, verification.error, 0)
      ELSE IF k \notin TicketIds
      THEN Verdict("reject", 404, "Ticket not found", 0)
      ELSE IF event_id # 0 /\ event_of(k) # event_id
      THEN Verdict("reject", 400, "Ticket is for a different event", k)
      ELSE IF role(user) = "ORGANIZER" /\ organizer_id(event_of(k)) # user
      THEN Verdict("reject", 403, "You can only verify tickets for your own events", k)
      ELSE IF tickets[k].is_used
      THEN Verdict("reject", 400, "Ticket has already been used", k)
      ELSE IF tickets[k].payment_status = "FAILED"
      THEN Verdict("reject", 400, "Ticket has been cancelled", k)
      ELSE IF EventEnd < now
      THEN Verdict("reject", 400, "Event has already ended", k)
      ELSE Verdict("redeem", 200, "", k)

\* scan_ticket without the comparison of ticket.event_id with the event asked
scan_ticket_guard_no_event_check(user, qr_data, event_id) ==
  LET verification == verify_qr_token(strip(qr_data))
      k == verification.ticket_id
  IN  IF role(user) \notin {"ADMIN", "ORGANIZER"}
      THEN Verdict("reject", 403, "Permission denied", 0)
      ELSE IF event_id \notin GateEvents   \* get_or_404 inside the try: 500
      THEN Verdict("reject", 500, "Not Found", 0)
      ELSE IF role(user) = "ORGANIZER" /\ organizer_id(event_id) # user
      THEN Verdict("reject", 403, "You can only scan tickets for your own events", 0)
      ELSE IF strip(qr_data) = <<>>
      THEN Verdict("reject", 400, "QR data is required", 0)
      ELSE IF ~verification.valid
      THEN Verdict("reject", 400, verification.error, 0)
      ELSE IF k \notin TicketIds
      THEN Verdict("reject", 404, "Invalid ticket", 0)
      ELSE IF tickets[k].is_used
      THEN Verdict("reject", 400, "Ticket already used", k)
      ELSE IF tickets[k].payment_status = "FAILED"
      THEN Verdict("reject", 400, "Ticket is cancelled", k)
      ELSE Verdict("redeem", 200, "", k)

\* scan_ticket down to its writes
scan_ticket_guard(user, qr_data, event_id) ==
  LET verification == verify_qr_token(strip(qr_data))
      k == verification.ticket_id
  IN  IF role(user) \notin {"ADMIN", "ORGANIZER"}
      THEN Verdict("reject", 403, "Permission denied", 0)
      ELSE IF event_id \notin GateEvents   \* get_or_404 inside the try: 500
      THEN Verdict("reject", 500, "Not Found", 0)
      ELSE IF role(user) = "ORGANIZER" /\ organizer_id(event_id) # user
      THEN Verdict("reject", 403, "You can only scan tickets for your own events", 0)
      ELSE IF strip(qr_data) = <<>>
      THEN Verdict("reject", 400, "QR data is required", 0)
      ELSE IF ~verification.valid
      THEN Verdict("reject", 400, verification.error, 0)
      ELSE IF k \notin TicketIds
      THEN Verdict("reject", 404, "Invalid ticket", 0)
      ELSE IF event_of(k) # event_id
      THEN Verdict("reject", 400, "Ticket is for a different event", k)
      ELSE IF tickets[k].is_used
      THEN Verdict("reject", 400, "Ticket already used", k)
      ELSE IF tickets[k].payment_status = "FAILED"
      THEN Verdict("reject", 400, "Ticket is cancelled", k)
      ELSE Verdict("redeem", 200, "", k)

\* confirm_ticket_by_code down to its writes; ticket_code is the id of the
\* ticket whose ticket_number is typed in, 0 for an empty code
confirm_ticket_by_code_guard(user, ticket_code, event_id) ==
  LET found == ticket_code \in TicketIds /\ event_of(ticket_code) = event_id
      k == ticket_code
  IN  IF role(user) \notin {"ADMIN", "ORGANIZER"}
      THEN Verdict("reject", 403, "Permission denied", k)
      ELSE IF ticket_code = 0
      THEN Verdict("reject", 400, "Ticket code is required", k)
      ELSE IF event_id = 0
      THEN Verdict("reject", 400, "Event ID is required", k)
      ELSE IF event_id \notin GateEvents
      THEN Verdict("reject", 404, "Event not found", k)
      ELSE IF role(user) = "ORGANIZER" /\ organizer_id(event_id) # user
      THEN Verdict("reject", 403, "You can only verify tickets for your own events", k)
      ELSE IF ~found
      THEN Verdict("reject", 404, "Ticket not found", k)
      ELSE IF tickets[k].is_used
      THEN Verdict("reject", 400, "Ticket has already been used", k)
      ELSE IF tickets[k].payment_status = "FAILED"
      THEN Verdict("reject", 400, "Ticket has been cancelled", k)
      ELSE IF tickets[k].payment_status # "COMPLETED"
      THEN Verdict("reject", 400, "Ticket status is not valid for entry", k)
      ELSE Verdict("redeem", 200, "", k)

\* the three writes of a redemption, and one more answer of 200
Redeem(k, user) ==
  [tickets EXCEPT ![k].is_used = TRUE, ![k].used_at = now, ![k].verified_by = user,
                  ![k].admissions = @ + 1]

Responded(op, user, qr_data, event_id, d) ==
  [op |-> op, user |-> user, qr_data |-> qr_data, ticket |-> d.ticket,
   event_id |-> event_id, code |-> d.code, error |-> d.error]

\* a whole request of one of the three routes, given the verdict of its guard
Gate(op, user, qr_data, event_id, verdict) ==
  \E d \in {verdict} :
  /\ response' = Responded(op, user, qr_data, event_id, d)
  /\ IF d.do = "redeem"
     THEN /\ tickets[d.ticket].admissions < MaxAdmissions
          /\ tickets' = Redeem(d.ticket, user)
     ELSE UNCHANGED tickets
  /\ UNCHANGED <<ticket_type, transactions, provider_success, inflight, now, scanning>>

verify_ticket(user, qr_data, event_id) ==
  Gate("verify_ticket", user, qr_data, event_id,
       verify_ticket_guard(user, qr_data, event_id))

scan_ticket(user, qr_data, event_id) ==
  Gate("scan_ticket", user, qr_data, event_id,
       scan_ticket_guard(user, qr_data, event_id))

confirm_ticket_by_code(user, ticket_code, event_id) ==
  Gate("confirm_ticket_by_code", user, <<>>, event_id,
       confirm_ticket_by_code_guard(user, ticket_code, event_id))

\* cancel_ticket comparing ticket.user_id with int(get_jwt_identity())
cancel_ticket_guard_int_identity(user, k) ==
  IF k \notin TicketIds
  THEN Verdict("reject", 500, "Not Found", 0)
  ELSE IF tickets[k].user_id # user
  THEN Verdict("reject", 403, "Permission denied", k)
  ELSE IF tickets[k].is_used
  THEN Verdict("reject", 400, "Cannot cancel a used ticket", k)
  ELSE IF EventStart < now
  THEN Verdict("reject", 400, "Cannot cancel ticket for past event", k)
  ELSE Verdict("cancel", 200, "", k)

\* cancel_ticket down to its writes: ticket.user_id != user_id compares the
\* column with the identity of the JWT
cancel_ticket_guard(user, k) ==
  IF k \notin TicketIds                    \* get_or_404 inside the try: 500
  THEN Verdict("reject", 500, "Not Found", 0)
  ELSE IF column(tickets[k].user_id) # get_jwt_identity(user)
  THEN Verdict("reject", 403, "Permission denied", k)
  ELSE IF tickets[k].is_used
  THEN Verdict("reject", 400, "Cannot cancel a used ticket", k)
  ELSE IF EventStart < now
  THEN Verdict("reject", 400, "Cannot cancel ticket for past event", k)
  ELSE Verdict("cancel", 200, "", k)

cancel_ticket(user, k) ==
  \E d \in {cancel_ticket_guard(user, k)} :
  /\ response' = Responded("cancel_ticket", user, <<>>, 0, d)
  /\ IF d.do = "cancel"
     THEN /\ tickets' = [tickets EXCEPT ![k].payment_status = "FAILED"]
          /\ ticket_type' = [ticket_type EXCEPT !.sold_quantity = @ - 1]
     ELSE UNCHANGED <<tickets, ticket_type>>
  /\ UNCHANGED <<transactions, provider_success, inflight, now, scanning>>

\* POST /debug/reset-ticket/<id>: no JWT is asked for
debug_reset_ticket(k) ==
  /\ IF k \notin TicketIds THEN UNCHANGED tickets
     ELSE tickets' = [tickets EXCEPT ![k].is_used = FALSE, ![k].used_at = 0,
                                     ![k].verified_by = 0]
  /\ UNCHANGED <<ticket_type, transactions, provider_success, inflight, gate_vars>>

\* POST /debug/regenerate-qr/<id>: a fresh token for any ticket row
debug_regenerate_qr(user, k) ==
  /\ IF role(user) \notin {"ADMIN", "ORGANIZER"} \/ k \notin TicketIds
     THEN UNCHANGED tickets
     ELSE tickets' = [tickets EXCEPT ![k].qr_data = k]
  /\ UNCHANGED <<ticket_type, transactions, provider_success, inflight, gate_vars>>

\* time passes
Tick ==
  /\ now < MaxNow
  /\ now' = now + 1
  /\ UNCHANGED <<ticket_type, transactions, tickets, provider_success, inflight,
                 response, scanning>>

\* --------------------------------------------------- tokens at the gate
\* the values uuid4 is drawn from here
Uuids == {<<"a">>, <<"b", "-", "1">>}

\* what a forger can put into the three fields: any uuid, a signature of
\* ticket 1 or something else, and ticket-id fields of every kind
ForgedSignatures ==
  {signature_of(str(1), u) : u \in Uuids} \cup {<<"0", "0">>, <<"é", "é">>}
ForgedTicketIds ==
  {str(1), str(2), <<"0", "1">>, <<"-", "1">>, <<"x">>}

\* the tokens presented: three fields of the above, and malformed text
TokenInputs ==
  {u \o <<":">> \o sig \o <<":">> \o id :
      u \in Uuids, sig \in ForgedSignatures, id \in ForgedTicketIds}
    \cup {<<>>, <<" ">>, <<"a", ":", "1">>, <<"a", ":", "a", ":", "0", "0", ":", "1">>}

\* generate_secure_qr_data is called for a ticket id and draws a uuid
GenerateToken(ticket_id, ticket_uuid) ==
  /\ response' = [op |-> "generate_secure_qr_data", user |-> 0,
                  qr_data |-> generate_secure_qr_data(ticket_id, ticket_uuid),
                  ticket |-> ticket_id, event_id |-> 0, code |-> 0, error |-> ""]
  /\ UNCHANGED <<ticket_type, transactions, tickets, provider_success, inflight,
                 now, scanning>>

\* verify_qr_token is called on a text
VerifyToken(qr_data) ==
  \E v \in {verify_qr_token(qr_data)} :
  /\ response' = [op |-> "verify_qr_token", user |-> 0, qr_data |-> qr_data,
                  ticket |-> v.ticket_id, event_id |-> 0,
                  code |-> 0, error |-> v.error]
  /\ UNCHANGED <<ticket_type, transactions, tickets, provider_success, inflight,
                 now, scanning>>

\* a verified buyer pays for one ticket at a time, staff scan what they are
\* shown, and the two token functions are applied to every input
NextToken ==
  \/ purchase_ticket(1, FALSE, "", 1, 1, 1, "254", "ok")
  \/ \E c \in TxnIds : confirm_payment(c, "mpesa", 0, "ok")
  \/ \E ticket_id \in 1..MaxTicketId, u \in Uuids : GenerateToken(ticket_id, u)
  \/ \E qr_data \in TokenInputs : VerifyToken(qr_data)
  \/ \E qr_data \in TokenInputs : verify_ticket(3, qr_data, 1)
  \/ \E qr_data \in TokenInputs : scan_ticket(4, qr_data, 1)

SpecToken == Init /\ [][NextToken]_vars

\* ------------------------------------------------------ at the gate
\* the uuid drawn for the tokens of this section
GateUuid == <<"a">>

\* the token the server made for ticket k
TokenOf(k) == generate_secure_qr_data(k, GateUuid)

\* what staff can be shown: the token of every ticket that was given one, and
\* a forged text
GateTokens ==
  {TokenOf(k) : k \in {j \in TicketIds : tickets[j].qr_data # 0}}
    \cup {<<"a", ":", "0", "0", ":", "1">>}

\* one verified buyer pays for one ticket, the payment succeeds, staff of
\* both kinds check tokens and codes for either event, and time passes
NextGate ==
  \/ /\ transactions = <<>>
     /\ purchase_ticket(1, FALSE, "", 1, 1, 1, "254", "ok")
  \/ \E c \in TxnIds : confirm_payment(c, "mpesa", 0, "ok")
  \/ \E user \in StaffIds, qr_data \in GateTokens, event_id \in {0} \cup GateEvents :
        verify_ticket(user, qr_data, event_id)
  \/ \E user \in StaffIds, qr_data \in GateTokens, event_id \in GateEvents :
        scan_ticket(user, qr_data, event_id)
  \/ \E user \in StaffIds, k \in TicketIds, event_id \in GateEvents :
        confirm_ticket_by_code(user, k, event_id)
  \/ Tick

SpecGate == Init /\ [][NextGate]_vars

\* ---------------------------------------------------- concurrent scans
\* a request of one of the three routes up to the end of its checks: a request
\* that is going to redeem is left in flight, any other one answers
Gate_begin(op, user, qr_data, event_id, verdict) ==
  \E d \in {verdict} :
  /\ IF d.do = "redeem"
     THEN /\ Len(scanning) < MaxScanning
          /\ scanning' = Append(scanning,
                [op |-> op, user |-> user, qr_data |-> qr_data,
                 event_id |-> event_id, ticket |-> d.ticket])
          /\ UNCHANGED response
     ELSE /\ response' = Responded(op, user, qr_data, event_id, d)
          /\ UNCHANGED scanning
  /\ UNCHANGED <<ticket_type, transactions, tickets, provider_success, inflight, now>>

\* the writes and the commit of the request in flight at position i, and its
\* answer of 200
Gate_commit(i) ==
  /\ i \in 1..Len(scanning)
  /\ \E r \in {scanning[i]} :
       /\ tickets[r.ticket].admissions < MaxAdmissions
       /\ tickets' = Redeem(r.ticket, r.user)
       /\ response' = Responded(r.op, r.user, r.qr_data, r.event_id,
                                Verdict("redeem", 200, "", r.ticket))
  /\ scanning' = [j \in 1..(Len(scanning) - 1) |->
                    IF j < i THEN scanning[j] ELSE scanning[j + 1]]
  /\ UNCHANGED <<ticket_type, transactions, provider_success, inflight, now>>

\* one verified buyer pays for one ticket, the payment succeeds, and staff
\* send requests of the three routes for event 1 that overlap
NextScan ==
  \/ /\ transactions = <<>>
     /\ purchase_ticket(1, FALSE, "", 1, 1, 1, "254", "ok")
  \/ \E c \in TxnIds : confirm_payment(c, "mpesa", 0, "ok")
  \/ \E user \in StaffIds, qr_data \in GateTokens :
        Gate_begin("verify_ticket", user, qr_data, 1,
                   verify_ticket_guard(user, qr_data, 1))
  \/ \E user \in StaffIds, qr_data \in GateTokens :
        Gate_begin("scan_ticket", user, qr_data, 1,
                   scan_ticket_guard(user, qr_data, 1))
  \/ \E user \in StaffIds, k \in TicketIds :
        Gate_begin("confirm_ticket_by_code", user, <<>>, 1,
                   confirm_ticket_by_code_guard(user, k, 1))
  \/ \E i \in 1..MaxScanning : Gate_commit(i)

SpecScan == Init /\ [][NextScan]_vars

\* ----------------------------------------------------------- scenario D
\* a ticket type with room for the reservation of the scenario
InitScenarioD ==
  /\ ticket_type = [quantity |-> ScenarioDQty, sold_quantity |-> 0, price |-> UnitPrice]
  /\ transactions = <<>>
  /\ tickets = <<>>
  /\ provider_success = {}
  /\ inflight = <<>>
  /\ now = 1
  /\ response = NoResponse
  /\ scanning = <<>>

\* guests reserve ScenarioDQty tickets and start the payment; the provider
\* reports no success: pushes are accepted or not, callbacks carry ResultCode
\* 1032, status queries report a failure or nothing; the client confirms
NextScenarioD ==
  \/ \E email \in GuestEmails, phone \in {""} \cup Phones :
        purchase_ticket(0, TRUE, email, 1, 1, ScenarioDQty, phone, "ok")
  \/ \E k \in TicketIds, gw \in GatewayOutcomes :
        initiate_guest_payment(k, TRUE, "254", gw)
  \/ \E c \in TxnIds, t \in TxnIds : stk_push_callback(c, 1032, 0, t)
  \/ \E t \in TxnIds, gw \in GatewayOutcomes \ {"ok"} : query_payment(t, gw)
  \/ \E c \in TxnIds, gw \in GatewayOutcomes \ {"ok"} :
        confirm_payment(c, "mpesa", 0, gw)

SpecScenarioD == InitScenarioD /\ [][NextScenarioD]_vars

\* ------------------------------------------------- callback payloads
\* the Amount item of a callback: absent (0), less than any price, the price
\* of one unit and of two
CallbackAmounts == {0, 1, UnitPrice, 2 * UnitPrice}

\* verified buyer 1 pays for one or two tickets, callbacks arrive with any
\* result and any Amount, and the client confirms
NextCallback ==
  \/ \E quantity \in 1..MaxQty : purchase_ticket(1, FALSE, "", 1, 1, quantity, "254", "ok")
  \/ \E c \in TxnIds, rc \in ResultCodes, amount \in CallbackAmounts, t \in TxnIds :
        stk_push_callback(c, rc, amount, t)
  \/ \E c \in TxnIds : confirm_payment(c, "mpesa", 0, "http_error")

SpecCallback == Init /\ [][NextCallback]_vars

\* -------------------------------------------------------- reservations
\* the HTTP status purchase_ticket answers a request with
purchase_ticket_status(jwt, is_guest_checkout, email, event_id, tt, quantity, phone, gw) ==
  LET is_authenticated == jwt # 0
      is_guest == is_guest_checkout /\ ~is_authenticated
  IN  IF is_authenticated /\ jwt \notin VerifiedUsers THEN 403
      ELSE IF is_guest /\ email = "" THEN 400
      ELSE IF event_id = 0 \/ tt = 0 THEN 400
      ELSE IF quantity < 1 THEN 400
      ELSE IF event_id \notin EventIds THEN 404
      ELSE IF tt \notin TicketTypeIds THEN 400
      ELSE IF ticket_type.sold_quantity + quantity > ticket_type.quantity THEN 400
      ELSE IF is_guest THEN 200
      ELSE IF phone = "" THEN (IF jwt = 0 THEN 500 ELSE 200)
      ELSE IF initiate_stk_push(gw).success THEN 200 ELSE 400

\* purchase_ticket of a request that passes the validation and reaches
\* create_pending_reservation or create_guest_reservation, whose last
\* db.session.commit() raises: what the earlier commit wrote stays, the
\* rollback undoes the rest, and the answer is 500
purchase_ticket_interrupted(jwt, is_guest_checkout, email, event_id, tt, quantity, phone) ==
  LET is_guest == is_guest_checkout /\ jwt = 0
  IN
  /\ purchase_ticket_status(jwt, is_guest_checkout, email, event_id, tt,
                            quantity, phone, "ok") = 200
  /\ is_guest \/ phone = ""
  /\ IF is_guest
     THEN create_guest_reservation(tt, quantity, email, phone)
     ELSE /\ Len(transactions) < MaxTxns
          /\ transactions' = Append(transactions,
                NewTransaction(jwt, tt, 0, quantity, ticket_type.price * quantity, ""))
          /\ UNCHANGED tickets
  /\ UNCHANGED <<ticket_type, provider_success, inflight>>
  /\ UNCHANGED gate_vars

\* every request of PurchaseRequests is sent, with and without the failing
\* commit, and reservations are paid for
NextReserve ==
  \/ \E r \in PurchaseRequests :
        purchase_ticket(r.jwt, r.is_guest_checkout, r.email, r.event_id,
                        r.ticket_type_id, r.quantity, r.phone, r.gw)
  \/ \E r \in PurchaseRequests :
        purchase_ticket_interrupted(r.jwt, r.is_guest_checkout, r.email, r.event_id,
                                    r.ticket_type_id, r.quantity, r.phone)
  \/ \E k \in TicketIds, gw \in GatewayOutcomes :
        initiate_payment_for_reservation(1, k, "254", gw)
  \/ \E k \in TicketIds, gw \in GatewayOutcomes :
        initiate_guest_payment(k, TRUE, "254", gw)

SpecReserve == Init /\ [][NextReserve]_vars

\* ------------------------------------------------------- cancellation
\* verified buyer 1 reserves and pays, payments succeed, organizer 3 admits,
\* buyers 1 and 2 ask to cancel any ticket, and time passes
NextCancel ==
  \/ \E phone \in {""} \cup Phones, quantity \in 1..MaxQty :
        purchase_ticket(1, FALSE, "", 1, 1, quantity, phone, "ok")
  \/ \E k \in TicketIds : initiate_payment_for_reservation(1, k, "254", "ok")
  \/ \E c \in TxnIds : confirm_payment(c, "mpesa", 0, "ok")
  \/ \E k \in TicketIds : tickets[k].qr_data # 0 /\ scan_ticket(3, TokenOf(k), 1)
  \/ \E user \in UserIds, k \in 1..MaxTickets : cancel_ticket(user, k)
  \/ Tick

SpecCancel == Init /\ [][NextCancel]_vars

\* ------------------------------------------------- guests at the gate
\* one guest reserves up to MaxQty tickets and pays, the payment is confirmed,
\* and staff check the tokens they are shown and the ticket numbers they are
\* told, for event 1
NextGuestGate ==
  \/ /\ transactions = <<>>
     /\ \E quantity \in 1..MaxQty :
           purchase_ticket(0, TRUE, "254@x", 1, 1, quantity, "254", "ok")
  \/ \E k \in TicketIds : initiate_guest_payment(k, TRUE, "254", "ok")
  \/ \E c \in TxnIds : confirm_payment(c, "mpesa", 0, "ok")
  \/ \E qr_data \in GateTokens : verify_ticket(3, qr_data, 1)
  \/ \E qr_data \in GateTokens : scan_ticket(4, qr_data, 1)
  \/ \E user \in StaffIds, k \in TicketIds : confirm_ticket_by_code(user, k, 1)

SpecGuestGate == Init /\ [][NextGuestGate]_vars

\* ------------------------------------------------- the debug routes
\* one verified buyer reserves one ticket, with or without paying at once,
\* the payment succeeds, staff check the tokens they are shown, and the two
\* debug routes are called
NextDebug ==
  \/ /\ transactions = <<>>
     /\ tickets = <<>>
     /\ \E phone \in {""} \cup Phones :
           purchase_ticket(1, FALSE, "", 1, 1, 1, phone, "ok")
  \/ \E k \in TicketIds : initiate_payment_for_reservation(1, k, "254", "ok")
  \/ \E c \in TxnIds : confirm_payment(c, "mpesa", 0, "ok")
  \/ \E user \in StaffIds, qr_data \in GateTokens : verify_ticket(user, qr_data, 0)
  \/ \E user \in StaffIds, qr_data \in GateTokens : scan_ticket(user, qr_data, 1)
  \/ \E k \in TicketIds : debug_reset_ticket(k)
  \/ \E k \in TicketIds : debug_regenerate_qr(3, k)

SpecDebug == Init /\ [][NextDebug]_vars

\* ================================================================ claims
\* a final ticket carries a signed QR token; a provisional one does not
IsFinal(k) == tickets[k].qr_data # 0

\* the final tickets issued for intent t
FinalTicketsOf(t) == {k \in TicketIds : IsFinal(k) /\ tickets[k].intent = t}

\* the intents that were confirmed into final tickets
IssuedIntents == {t \in TxnIds : FinalTicketsOf(t) # {}}

RECURSIVE SumQuantity(_)
SumQuantity(S) ==
  IF S = {} THEN 0
  ELSE LET t == CHOOSE x \in S : TRUE
       IN  transactions[t].quantity + SumQuantity(S \ {t})

\* status values compared without regard to case
Upper(status) ==
  CASE status = "completed" -> "COMPLETED"
    [] status = "failed"    -> "FAILED"
    [] OTHER                -> status

\* C1: the sold counter of the ticket type never exceeds its capacity.
C1_SoldWithinCapacity ==
  ticket_type.sold_quantity <= ticket_type.quantity

\* C2: over any sequence of confirm_payment calls and webhook deliveries an
\* intent is issued at most once: it has no final ticket or exactly
\* `quantity` of them.
C2_IssuedOncePerIntent ==
  \A t \in TxnIds :
    Cardinality(FinalTicketsOf(t)) \in {0, transactions[t].quantity}

\* C3: every final ticket belongs to an intent for which the provider reported
\* success (a callback or a status poll with ResultCode 0).
C3_IssuedOnlyAfterProviderSuccess ==
  \A k \in TicketIds : IsFinal(k) => tickets[k].intent \in provider_success

\* C4: once the status of a transaction is COMPLETED or FAILED, no step
\* changes it to a different status.
C4_TerminalStatusIsFinal ==
  [][\A t \in TxnIds :
       transactions[t].status # "PENDING"
         => Upper(transactions'[t].status) = Upper(transactions[t].status)]_vars

\* C5: however two confirmations of one intent interleave, at most `quantity`
\* final tickets exist for it and the sold counter grew by the quantity of
\* each issued intent once.
C5_OneIssuerUnderInterleaving ==
  /\ \A t \in TxnIds : Cardinality(FinalTicketsOf(t)) <= transactions[t].quantity
  /\ ticket_type.sold_quantity = SumQuantity(IssuedIntents)

\* C6 (scenario A): with capacity 1, of two reservations of quantity 1 at most
\* one is confirmed into a final ticket.
C6_ScenarioA_SecondConfirmationRefused ==
  ticket_type.quantity = 1 =>
    Cardinality({t \in IssuedIntents : transactions[t].quantity = 1}) <= 1

\* C7: as long as the provider reports no outcome (pushes are accepted or the
\* gateway is unreachable, status queries find it unreachable), no intent is
\* set to a failed state.
C7_UnavailableGatewayKeepsPending ==
  \A t \in TxnIds : Upper(transactions[t].status) # "FAILED"

\* C8 (scenario B): once the webhook reported success for an initiated intent
\* of quantity 2, confirm_payment with its correlation id answers
\* already_processed with exactly the 2 final tickets of that intent.
C8_ScenarioB_ConfirmAfterWebhook ==
  \A t \in TxnIds :
    /\ transactions[t].quantity = 2
    /\ transactions[t].checkout_request_id # 0
    /\ transactions[t].status = "completed"
    /\ t \in provider_success
    => LET d == confirm_payment_guard(transactions[t].checkout_request_id, "mpesa", 0, "ok")
       IN  /\ d.do = "already"
           /\ d.tickets = FinalTicketsOf(t)
           /\ Cardinality(d.tickets) = 2

\* C9: whenever confirm_payment short-circuits as already processed, the
\* tickets it returns are exactly the final tickets of that intent.
C9_ShortCircuitReturnsOwnTickets ==
  \A c \in TxnIds :
    LET d == confirm_payment_guard(c, "mpesa", 0, "ok")
    IN  d.do = "already" => d.tickets = FinalTicketsOf(d.t)

TamperedToken(qr_data) ==
  LET parts == split(strip(qr_data))
  IN  /\ Len(parts) = 3
      /\ parts[2] # signature_of(parts[3], parts[1])

\* the step is a request of a token-checking operation
TokenChecked ==
  /\ response' # response
  /\ response'.op \in {"verify_qr_token", "verify_ticket", "scan_ticket"}

C15_TokenRoundTrip ==
  response.op = "generate_secure_qr_data"
    => LET v == verify_qr_token(response.qr_data)
       IN  /\ v.valid
           /\ v.ticket_id = response.ticket
           /\ v.ticket_uuid = split(response.qr_data)[1]
           /\ v.ticket_uuid \in Uuids

\* C15 witness: a token was generated for a ticket id of two digits
C15_Witness ==
  /\ response.op = "generate_secure_qr_data"
  /\ response.ticket >= 10
  /\ verify_qr_token(response.qr_data).ticket_id = response.ticket
\* a check of the token of ticket k by staff permitted for the event they name
\* (verify_ticket may name none), in either of the two token routes
TokenCheck(user, k, event_id) ==
  \/ /\ event_id \in {0, event_of(k)}
     /\ verify_ticket(user, TokenOf(k), event_id)
  \/ /\ event_id = event_of(k)
     /\ scan_ticket(user, TokenOf(k), event_id)

\* C13: a valid token checked while its ticket is unredeemed (paid, and for
\* verify_ticket before the end of the event) is accepted and the check sets
\* is_used, used_at and verified_by; checked again, it is rejected as already
\* used and the three fields stay as the first check set them.
C13_SecondVerificationRejected ==
  [][\A user \in StaffIds, k \in TicketIds, event_id \in {0} \cup GateEvents :
       (tickets[k].qr_data # 0 /\ TokenCheck(user, k, event_id)) =>
         IF tickets[k].is_used
         THEN /\ response'.code = 400
              /\ response'.error \in {"Ticket has already been used", "Ticket already used"}
              /\ tickets' = tickets
         ELSE (tickets[k].payment_status = "COMPLETED"
                 /\ (response'.op = "verify_ticket" => now <= EventEnd)) =>
              /\ response'.code = 200
              /\ tickets'[k].is_used
              /\ tickets'[k].used_at = now
              /\ tickets'[k].verified_by = user]_vars

\* a second check, later than the first and by other staff, was rejected and
\* the ticket still shows the first one
C13_Witness ==
  /\ response.op \in {"verify_ticket", "scan_ticket"}
  /\ response.error \in {"Ticket has already been used", "Ticket already used"}
  /\ response.qr_data = TokenOf(response.ticket)
  /\ tickets[response.ticket].is_used
  /\ tickets[response.ticket].used_at < now
  /\ tickets[response.ticket].verified_by # response.user
  /\ tickets[response.ticket].admissions = 1

\* staff allowed to check tickets of the event they name
Permitted(user, event_id) ==
  role(user) = "ADMIN" \/ (role(user) = "ORGANIZER" /\ organizer_id(event_id) = user)

\* C16 as claimed (scenario C): a request of permitted staff that names an
\* event other than the ticket's is answered with the wrong-event error and
\* changes no ticket, in verify_ticket, scan_ticket and confirm_ticket_by_code.
C16_WrongEventErrorInAllRoutes ==
  [][\A user \in StaffIds, k \in TicketIds, event_id \in GateEvents :
       (/\ Permitted(user, event_id)
        /\ event_id # event_of(k)
        /\ \/ tickets[k].qr_data # 0 /\ verify_ticket(user, TokenOf(k), event_id)
           \/ tickets[k].qr_data # 0 /\ scan_ticket(user, TokenOf(k), event_id)
           \/ confirm_ticket_by_code(user, k, event_id))
         => /\ response'.error = "Ticket is for a different event"
            /\ tickets' = tickets]_vars

\* C16 (scenario C): a request of permitted staff that names an event other
\* than the ticket's changes no ticket; verify_ticket and scan_ticket answer
\* 400 with the wrong-event error, confirm_ticket_by_code answers 404 "Ticket
\* not found".
C16_WrongEventRejected ==
  [][\A user \in StaffIds, k \in TicketIds, event_id \in GateEvents :
       (Permitted(user, event_id) /\ event_id # event_of(k)) =>
         /\ (tickets[k].qr_data # 0
               /\ (verify_ticket(user, TokenOf(k), event_id)
                     \/ scan_ticket(user, TokenOf(k), event_id)))
              => /\ response'.code = 400
                 /\ response'.error = "Ticket is for a different event"
                 /\ tickets' = tickets
         /\ confirm_ticket_by_code(user, k, event_id)
              => /\ response'.code = 404
                 /\ response'.error = "Ticket not found"
                 /\ tickets' = tickets]_vars

\* a paid, unredeemed ticket was refused for the other event
C16_Witness ==
  /\ response.op \in {"verify_ticket", "scan_ticket", "confirm_ticket_by_code"}
  /\ response.code \in {400, 404}
  /\ response.error \in {"Ticket is for a different event", "Ticket not found"}
  /\ response.ticket \in TicketIds
  /\ response.event_id \in GateEvents \ {event_of(response.ticket)}
  /\ Permitted(response.user, response.event_id)
  /\ tickets[response.ticket].payment_status = "COMPLETED"
  /\ ~tickets[response.ticket].is_used
  /\ now <= EventEnd

\* C19: once is_used of a ticket is true, no step of any route makes it false
\* or changes used_at or verified_by.
C19_RedemptionIrreversible ==
  [][\A k \in TicketIds :
       tickets[k].is_used =>
         /\ tickets'[k].is_used
         /\ tickets'[k].used_at = tickets[k].used_at
         /\ tickets'[k].verified_by = tickets[k].verified_by]_vars

\* C20: verify_ticket and scan_ticket set is_used only on a ticket whose
\* payment_status is COMPLETED.
C20_RedeemedOnlyIfCompleted ==
  [][\A k \in TicketIds :
       (~tickets[k].is_used /\ tickets'[k].is_used) =>
         tickets[k].payment_status = "COMPLETED"]_vars

\* C12: however requests of verify_ticket, scan_ticket and
\* confirm_ticket_by_code for one ticket overlap, the ticket is redeemed by at
\* most one of them.
C12_RedeemedOnceUnderInterleaving ==
  \A k \in TicketIds : tickets[k].admissions <= 1

\* C17: cancel_ticket called by its owner on a paid, unredeemed ticket before
\* the start of the event cancels it and takes one off sold_quantity; called
\* on a ticket that is cancelled already, it changes nothing.
C17_CancelIdempotent ==
  [][\A user \in UserIds, k \in TicketIds :
       (tickets[k].user_id = user /\ cancel_ticket(user, k)) =>
         IF tickets[k].payment_status = "FAILED"
         THEN UNCHANGED <<tickets, ticket_type>>
         ELSE (tickets[k].payment_status = "COMPLETED" /\ ~tickets[k].is_used
                 /\ now <= EventStart) =>
              /\ tickets'[k].payment_status = "FAILED"
              /\ ticket_type'.sold_quantity = ticket_type.sold_quantity - 1]_vars

C11_ScenarioD_FailureIssuesNothing ==
  [][\A t \in TxnIds :
       (/\ transactions[t].user_id = 0
        /\ transactions[t].quantity = ScenarioDQty
        /\ Upper(transactions[t].status) = "FAILED")
         => /\ Upper(transactions'[t].status) = "FAILED"
            /\ ticket_type'.sold_quantity = ticket_type.sold_quantity
            /\ \A k \in 1..Len(tickets') :
                  ~(tickets'[k].qr_data # 0 /\ tickets'[k].intent = t)]_vars

\* C21: no route marks a ticket is_used after the end of its event.
C21_NoRedemptionAfterEventEnded ==
  [][\A k \in TicketIds :
       (~tickets[k].is_used /\ tickets'[k].is_used) => now <= EventEnd]_vars

\* C22: whatever Amount a callback carries, the amount of every transaction
\* stays the one computed at reservation, unit price times quantity.
C22_CallbackKeepsAmount ==
  \A t \in TxnIds :
    transactions[t].amount = ticket_type.price * transactions[t].quantity

\* C23: a purchase_ticket request that fails, on a validation error or on an
\* error at a commit of create_pending_reservation / create_guest_reservation,
\* leaves no transaction and no provisional ticket behind.
C23_ReservationAllOrNothing ==
  [][\A r \in PurchaseRequests :
       /\ (/\ purchase_ticket_status(r.jwt, r.is_guest_checkout, r.email, r.event_id,
                                     r.ticket_type_id, r.quantity, r.phone, r.gw) >= 400
           /\ purchase_ticket(r.jwt, r.is_guest_checkout, r.email, r.event_id,
                              r.ticket_type_id, r.quantity, r.phone, r.gw))
            => UNCHANGED <<transactions, tickets>>
       /\ purchase_ticket_interrupted(r.jwt, r.is_guest_checkout, r.email, r.event_id,
                                      r.ticket_type_id, r.quantity, r.phone)
            => UNCHANGED <<transactions, tickets>>]_vars

\* C24: every purchase_ticket request answered 200 creates exactly one
\* PENDING transaction of amount unit price times quantity and exactly one
\* provisional PENDING ticket, and the transaction's ticket_id is that ticket.
C24_ReservationCreatesLinkedPair ==
  [][\A r \in PurchaseRequests :
       (/\ purchase_ticket_status(r.jwt, r.is_guest_checkout, r.email, r.event_id,
                                  r.ticket_type_id, r.quantity, r.phone, r.gw) = 200
        /\ purchase_ticket(r.jwt, r.is_guest_checkout, r.email, r.event_id,
                           r.ticket_type_id, r.quantity, r.phone, r.gw))
         => /\ Len(transactions') = Len(transactions) + 1
            /\ Len(tickets') = Len(tickets) + 1
            /\ transactions'[Len(transactions')].status = "PENDING"
            /\ transactions'[Len(transactions')].amount = ticket_type.price * r.quantity
            /\ tickets'[Len(tickets')].payment_status = "PENDING"
            /\ tickets'[Len(tickets')].qr_data = 0
            /\ transactions'[Len(transactions')].ticket_id = Len(tickets')]_vars

\* C25: the provisional ticket of every intent that was issued has
\* payment_status COMPLETED (in either case of the letters).
C25_ProvisionalCompletedAfterIssuance ==
  \A k \in TicketIds :
    (~IsFinal(k) /\ tickets[k].intent \in IssuedIntents)
      => Upper(tickets[k].payment_status) = "COMPLETED"

\* C26: every final ticket is priced at the unit price of its ticket type.
C26_FinalTicketAtUnitPrice ==
  \A k \in TicketIds : IsFinal(k) => tickets[k].total_price = ticket_type.price

\* C27: the first confirm_payment for an intent of a registered buyer that the
\* provider reports as paid, and that has no final ticket yet, creates exactly
\* `quantity` final tickets for it and adds `quantity` to sold_quantity.
C27_PaidIntentIsIssued ==
  [][\A c \in TxnIds, gw \in GatewayOutcomes :
       LET t == TxnByCheckout(c)
       IN  (/\ t \in TxnIds
            /\ transactions[t].user_id \in VerifiedUsers
            /\ FinalTicketsOf(t) = {}
            /\ confirm_payment(c, "mpesa", 0, gw)
            /\ t \in provider_success')
             => /\ Len(tickets') = Len(tickets) + transactions[t].quantity
                /\ \A k \in (Len(tickets) + 1)..Len(tickets') :
                      tickets'[k].qr_data # 0 /\ tickets'[k].intent = t
                /\ ticket_type'.sold_quantity =
                     ticket_type.sold_quantity + transactions[t].quantity]_vars

\* C28: no provisional ticket is ever marked is_used, and of the tickets of
\* an intent at most `quantity` are.
C28_ProvisionalNeverRedeemed ==
  /\ \A k \in TicketIds : ~IsFinal(k) => ~tickets[k].is_used
  /\ \A t \in TxnIds :
       Cardinality({k \in TicketIds : tickets[k].intent = t /\ tickets[k].is_used})
         <= transactions[t].quantity

\* C29: sold_quantity of the ticket type equals the number of its final
\* tickets whose payment_status is COMPLETED.
C29_InventoryConservation ==
  ticket_type.sold_quantity =
    Cardinality({k \in TicketIds : IsFinal(k) /\ tickets[k].payment_status = "COMPLETED"})

\* C30: the transaction on which initiate_payment_for_reservation starts the
\* payment for ticket k has the quantity of ticket k, whose price is charged.
C30_InitiateRightIntent ==
  [][\A r \in InitiateRequests, t \in TxnIds :
       (/\ r.k \in TicketIds
        /\ initiate_payment_for_reservation(r.jwt, r.k, "254", r.gw)
        /\ transactions'[t] # transactions[t])
         => transactions[t].quantity = tickets[r.k].quantity]_vars

====
